---------------------------- MODULE Spec2Model ----------------------------
(***************************************************************************)
(* A state-machine model of the parselbox sandbox controller: the two MCP  *)
(* tools "configure" and "execute_python" (tools.ts, present in the        *)
(* repository in two revisions, src/unnamed/part_000 and part_001), the    *)
(* Deno permission state they query and revoke, the interrupt buffer and   *)
(* the timeout timer of an execution, the produced-files diff, and the     *)
(* Python side of sandbox.ts: the RPC bridge, the attribute-chain proxy    *)
(* and serialize_py.                                                       *)
(*                                                                         *)
(* Handlers are async functions running on one event loop: an action is    *)
(* the code that runs between two awaits of a handler (or a timer          *)
(* callback together with the promise continuations it triggers).          *)
(***************************************************************************)
EXTENDS Integers, Sequences, FiniteSets, TLC

\* ------------------------------------------------------------- bounds
\* Tool calls the host issues in one session.
MaxCalls == 2
\* RPCs a script issues in one engine run.
MaxRpc == 2
\* Attribute accesses chained on one proxy.
MaxPath == 3
\* The modification times of the files of a snapshot are 1..MaxMtime.
MaxMtime == 2
\* The objects of a value handed to serialize_py, and the items of a container.
MaxObjects == 3
MaxItems == 2

CallIds == 1..MaxCalls
None == 0

\* ---------------------------------------------------------- constants
\* The two revisions of tools.ts in the repository.
Builds == {"part_000", "part_001"}

\* PACKAGE_DOWNLOAD_DOMAINS
Domains == {"cdn.jsdelivr.net:443", "pypi.org:443", "files.pythonhosted.org:443"}

\* The substrings formatError looks for in an error's message.
PermText == "Permission denied"
TimeoutText == "Execution timed out"
PyErrText == "PythonError"
TracebackText == "Traceback"
Fragments == {PermText, TimeoutText, PyErrText, TracebackText}

VARIABLES
    build,          \* which revision of tools.ts the session runs
    cacheDirSet,    \* Deno.env.get("PACKAGE_CACHE_DIR") is a non-empty string
    netGranted,     \* the download domains whose "net" permission is granted
    writeGranted,   \* the "write" permission on the package cache directory
    revoked,        \* history: the capabilities Deno.permissions.revoke was called on
    nCalls,         \* tool calls received so far
    call,           \* per call: the handler's arguments, locals, position and result
    interruptBuffer,\* the call whose buffer pyodide.setInterruptBuffer holds (None: undefined)
    buf,            \* per call: the value in interruptBuffer[0] of its own buffer
    timer,          \* per call: the setTimeout timer of the timeout race
    run,            \* per call: the engine run started by pyodide.runPythonAsync
    hung,           \* a script that never yields holds the event loop
    rpc,            \* per run: the RPC envelopes handed to the transport and not yet answered
    proxy,          \* the _DynamicProxy objects and the attribute chain being evaluated
    sent,           \* the envelopes _host_rpc_call handed to the transport
    lib             \* the last call of one of the program's functions: arguments and value

vars == <<build, cacheDirSet, netGranted, writeGranted, revoked, nCalls, call,
          interruptBuffer, buf, timer, run, hung, rpc, proxy, sent, lib>>

sessionVars == <<build, cacheDirSet, netGranted, writeGranted, revoked, nCalls, call,
                 interruptBuffer, buf, timer, run, hung, rpc>>
proxyVars == <<proxy, sent>>

\* ------------------------------------------------------ permissions
\* readPackagePermissions: isNetworkDisabled
IsNetworkDisabled(granted) == \A d \in Domains : d \notin granted

\* readPackagePermissions: isRuntimePackagesDisabled
IsRuntimePackagesDisabled(dirSet, w) == ~dirSet \/ ~w

\* Deno.permissions.revoke({ name: "net" }): the global descriptor clears
\* every granted host.
RevokeNetToggles(granted) == IF granted = {} THEN Domains ELSE {}
RevokeNet(granted) == {}

\* Deno.permissions.revoke({ name: "write", path: PACKAGE_CACHE_DIR })
RevokeWrite(w) == FALSE

\* ----------------------------------------------------------- results
Absent == "absent"
ErrorCodes == {"TIMEOUT", "PERMISSION_DENIED", "PYTHON_EXCEPTION", "UNKNOWN"}

NoResult ==
    [is_success |-> Absent, result |-> FALSE, files |-> FALSE,
     error |-> FALSE, error_code |-> Absent, isError |-> FALSE]

\* configure: return { structuredContent: { is_success: true }, ... }
ConfigureOk == [NoResult EXCEPT !.is_success = "true"]

\* configure: catch: { structuredContent: { error: error.message }, isError: true }
ConfigureError == [NoResult EXCEPT !.error = TRUE, !.isError = TRUE]

\* An error value: whether it is a Deno.errors.PermissionDenied, and which of
\* the substrings formatError looks for its message contains.
Errors ==
    {[denoPerm |-> TRUE, msg |-> {}]} \cup
    { [denoPerm |-> FALSE, msg |-> m] :
        m \in { {}, {PermText}, {TimeoutText}, {PyErrText, TracebackText},
                {TracebackText, TimeoutText}, {TimeoutText, PermText} } }

\* The errors a failing FS.readdir or FS.stat of getVFSState throws.
FsErrors == { [denoPerm |-> FALSE, msg |-> m] : m \in { {}, {PermText} } }

\* new Error(`Execution timed out after ${timeout} seconds`)
TimeoutError == [denoPerm |-> FALSE, msg |-> {TimeoutText}]

\* formatError
FormatError(e) ==
    IF e.denoPerm \/ PermText \in e.msg THEN "PERMISSION_DENIED"
    ELSE IF TimeoutText \in e.msg THEN "TIMEOUT"
    ELSE IF PyErrText \in e.msg \/ TracebackText \in e.msg THEN "PYTHON_EXCEPTION"
    ELSE "UNKNOWN"

\* ------------------------------------------------------------- calls
\* The steps of configure that run before any await, in source order.
SyncSteps ==
    IF build = "part_001"
    THEN <<"globals", "output_dir", "input_dir", "mounts", "tools">>
    ELSE <<"globals", "output_dir", "mounts", "tools">>

StepNames == {"globals", "output_dir", "input_dir", "mounts", "tools"}

NoCall ==
    [kind |-> "none", pc |-> "idle",
     packages |-> FALSE, disable_net |-> FALSE, disable_runtime_packages |-> FALSE,
     timeout |-> FALSE, auto_load_packages |-> FALSE,
     isNetworkDisabled |-> FALSE, isRuntimePackagesDisabled |-> FALSE,
     applied |-> <<>>, failed |-> "none",
     deniedAtStart |-> FALSE, revokedAtStart |-> {}, loadInvoked |-> FALSE, thrown |-> FALSE,
     res |-> NoResult]

\* No function of the library has been called.
NoLib == [op |-> "none"]

\* No proxy is registered and no expression is being evaluated.
NoProxy == [heap |-> <<>>, val |-> [kind |-> "none"], chain |-> <<>>, called |-> FALSE]

Init ==
    /\ build \in Builds
    /\ cacheDirSet \in BOOLEAN
    /\ netGranted \in {{}, {"pypi.org:443"}, Domains}
    /\ writeGranted \in BOOLEAN
    /\ revoked = {}
    /\ nCalls = 0
    /\ call = [c \in CallIds |-> NoCall]
    /\ interruptBuffer = None
    /\ buf = [c \in CallIds |-> 0]
    /\ timer = [c \in CallIds |-> "unset"]
    /\ run = [c \in CallIds |-> "none"]
    /\ hung = FALSE
    /\ rpc = [c \in CallIds |-> {}]
    /\ proxy = NoProxy
    /\ sent = <<>>
    /\ lib = NoLib

\* ---------------------------------------------------------- configure
Prefix(s, n) == SubSeq(s, 1, n)

\* The index of a step in SyncSteps (0 when it is not one of them).
StepIndex(step) ==
    IF \E i \in 1..Len(SyncSteps) : SyncSteps[i] = step
    THEN CHOOSE i \in 1..Len(SyncSteps) : SyncSteps[i] = step
    ELSE 0

\* The handler's promise resolves with rec.res; its locals (the permissions
\* read) go out of scope.
Returned(rec) ==
    [rec EXCEPT !.pc = "returned",
                !.isNetworkDisabled = FALSE, !.isRuntimePackagesDisabled = FALSE]

\* configure's finally block from its second statement: revoke the write
\* permission when disable_runtime_packages is set, then the handler returns
\* what its try or catch block returned.
CfgFinallyWrite(c, rec) ==
    IF rec.disable_runtime_packages
    THEN /\ writeGranted' = RevokeWrite(writeGranted)
         /\ revoked' = revoked \cup {"write"}
         /\ call' = [call EXCEPT ![c] = [rec EXCEPT !.pc = "revoke_write"]]
    ELSE /\ UNCHANGED <<writeGranted, revoked>>
         /\ call' = [call EXCEPT ![c] = Returned(rec)]

\* configure's finally block: revoke the net permission when disable_net is
\* set (the await on the revocation suspends the handler), then go on.
CfgFinallySkipsOnError(c, rec) ==
    IF rec.disable_net /\ ~rec.thrown
    THEN /\ netGranted' = RevokeNet(netGranted)
         /\ revoked' = revoked \cup {"net"}
         /\ writeGranted' = writeGranted
         /\ call' = [call EXCEPT ![c] = [rec EXCEPT !.pc = "revoke_net"]]
    ELSE /\ netGranted' = netGranted
         /\ IF rec.thrown
            THEN /\ UNCHANGED <<writeGranted, revoked>>
                 /\ call' = [call EXCEPT ![c] = Returned(rec)]
            ELSE CfgFinallyWrite(c, rec)
CfgFinally(c, rec) ==
    IF rec.disable_net
    THEN /\ netGranted' = RevokeNet(netGranted)
         /\ revoked' = revoked \cup {"net"}
         /\ writeGranted' = writeGranted
         /\ call' = [call EXCEPT ![c] = [rec EXCEPT !.pc = "revoke_net"]]
    ELSE /\ netGranted' = netGranted
         /\ CfgFinallyWrite(c, rec)

\* The package-loading gate of configure: throw unless both capabilities
\* were read as granted.
PackageGateOpen(rec) == TRUE
PackageGate(rec) == ~rec.isNetworkDisabled /\ ~rec.isRuntimePackagesDisabled

\* A statement of the try block that throws ends the block: control goes
\* to the catch block.
StepNeverThrows(step, failStep) == FALSE
StepThrows(step, failStep) == step = failStep

\* The try block of configure from step i on: the steps run one after the
\* other, each leaving its effect in the engine (applied), until one throws.
RECURSIVE RunSteps(_, _, _, _)
RunSteps(steps, i, failStep, applied) ==
    IF i > Len(steps)
    THEN [applied |-> applied, thrown |-> FALSE]
    ELSE IF StepThrows(steps[i], failStep)
    THEN [applied |-> applied, thrown |-> TRUE]
    ELSE RunSteps(steps, i + 1, failStep, Append(applied, steps[i]))

\* A configure request arrives: the handler runs its synchronous steps in
\* order; failStep is the step that throws (or "none"). With packages to
\* load it calls readPackagePermissions, which reads the net permissions and
\* awaits them; otherwise it returns through the finally block.
CfgBegin(packages, dnet, drt, failStep) ==
    /\ ~hung
    /\ nCalls < MaxCalls
    /\ failStep = "none" \/ StepIndex(failStep) > 0
    /\ LET c == nCalls + 1
           steps == RunSteps(SyncSteps, 1, failStep, <<>>)
           failed == steps.thrown
           rec0 == [NoCall EXCEPT
                      !.kind = "configure",
                      !.packages = packages,
                      !.disable_net = dnet,
                      !.disable_runtime_packages = drt,
                      !.applied = steps.applied,
                      !.failed = failStep,
                      !.deniedAtStart =
                          \/ IsNetworkDisabled(netGranted)
                          \/ IsRuntimePackagesDisabled(cacheDirSet, writeGranted)]
       IN  /\ nCalls' = c
           /\ IF failed
              THEN CfgFinally(c, [rec0 EXCEPT !.res = ConfigureError, !.thrown = TRUE])
              ELSE IF packages
              THEN /\ call' = [call EXCEPT ![c] =
                                 [rec0 EXCEPT
                                    !.pc = "query_net",
                                    !.isNetworkDisabled = IsNetworkDisabled(netGranted)]]
                   /\ UNCHANGED <<netGranted, writeGranted, revoked>>
              ELSE CfgFinally(c, [rec0 EXCEPT !.res = ConfigureOk])
    /\ UNCHANGED <<build, cacheDirSet, interruptBuffer, buf, timer, run, hung, rpc>>
    /\ UNCHANGED <<proxyVars, lib>>

\* readPackagePermissions resumes after the net queries: it reads
\* PACKAGE_CACHE_DIR and the write permission on it.
CfgQueryWrite(c) ==
    /\ ~hung
    /\ call[c].kind = "configure" /\ call[c].pc = "query_net"
    /\ call' = [call EXCEPT ![c] =
                  [@ EXCEPT !.pc = "query_write",
                            !.isRuntimePackagesDisabled =
                                IsRuntimePackagesDisabled(cacheDirSet, writeGranted)]]
    /\ UNCHANGED <<build, cacheDirSet, netGranted, writeGranted, revoked, nCalls,
                   interruptBuffer, buf, timer, run, hung, rpc>>
    /\ UNCHANGED <<proxyVars, lib>>

\* configure resumes with the permissions read: it throws when one is
\* disabled, and else calls pyodide.loadPackage and awaits it.
CfgCheck(c) ==
    /\ ~hung
    /\ call[c].kind = "configure" /\ call[c].pc = "query_write"
    /\ IF PackageGate(call[c])
       THEN /\ call' = [call EXCEPT ![c] = [@ EXCEPT !.pc = "loading", !.loadInvoked = TRUE]]
            /\ UNCHANGED <<netGranted, writeGranted, revoked>>
       ELSE CfgFinally(c, [call[c] EXCEPT !.res = ConfigureError, !.thrown = TRUE,
                                          !.failed = "packages"])
    /\ UNCHANGED <<build, cacheDirSet, nCalls, interruptBuffer, buf, timer, run, hung, rpc>>
    /\ UNCHANGED <<proxyVars, lib>>

\* pyodide.loadPackage settles: resolved (ok) or rejected.
CfgLoadSettle(c, ok) ==
    /\ ~hung
    /\ call[c].kind = "configure" /\ call[c].pc = "loading"
    /\ IF ok
       THEN CfgFinally(c, [call[c] EXCEPT !.res = ConfigureOk,
                                          !.applied = Append(@, "packages")])
       ELSE CfgFinally(c, [call[c] EXCEPT !.res = ConfigureError, !.thrown = TRUE,
                                          !.failed = "packages"])
    /\ UNCHANGED <<build, cacheDirSet, nCalls, interruptBuffer, buf, timer, run, hung, rpc>>
    /\ UNCHANGED <<proxyVars, lib>>

\* The await on the net revocation resumes.
CfgRevokeNetDone(c) ==
    /\ ~hung
    /\ call[c].kind = "configure" /\ call[c].pc = "revoke_net"
    /\ CfgFinallyWrite(c, call[c])
    /\ UNCHANGED <<build, cacheDirSet, netGranted, nCalls, interruptBuffer, buf, timer,
                   run, hung, rpc>>
    /\ UNCHANGED <<proxyVars, lib>>

\* The await on the write revocation resumes: the handler returns.
CfgRevokeWriteDone(c) ==
    /\ ~hung
    /\ call[c].kind = "configure" /\ call[c].pc = "revoke_write"
    /\ call' = [call EXCEPT ![c] = Returned(@)]
    /\ UNCHANGED <<build, cacheDirSet, netGranted, writeGranted, revoked, nCalls,
                   interruptBuffer, buf, timer, run, hung, rpc>>
    /\ UNCHANGED <<proxyVars, lib>>

\* ------------------------------------------------------ execute_python
\* execute_python: return { structuredContent: { is_success: true, result, files } }
\* (part_000 adds error: message and error_code: code, the source text).
ExecuteOk ==
    IF build = "part_001"
    THEN [NoResult EXCEPT !.is_success = "true", !.result = TRUE, !.files = TRUE]
    ELSE [NoResult EXCEPT !.is_success = "true", !.result = TRUE, !.files = TRUE,
                          !.error = TRUE, !.error_code = "source_code"]

\* execute_python: the catch block's result for error e.
ExecuteError(e) ==
    IF build = "part_001"
    THEN [NoResult EXCEPT
            !.is_success = "false", !.error = TRUE, !.error_code = FormatError(e),
            !.isError = FormatError(e) \in {"TIMEOUT", "PERMISSION_DENIED"}]
    ELSE [NoResult EXCEPT !.error = TRUE, !.isError = TRUE]

\* clearTimeout(timeoutId)
ClearTimeout(t) == IF t = "armed" THEN "cleared" ELSE t

\* execute_python's finally block: pyodide.setInterruptBuffer(undefined)
FinallyInterruptBuffer(current) == None

\* The handler returns res through its finally block (clearTimeout, then
\* setInterruptBuffer(undefined)).
ExecReturn(c, rec, res) ==
    /\ call' = [call EXCEPT ![c] = [rec EXCEPT !.pc = "returned", !.res = res]]
    /\ timer' = [timer EXCEPT ![c] = ClearTimeout(@)]
    /\ interruptBuffer' = FinallyInterruptBuffer(interruptBuffer)

\* An error e thrown before the try block of part_000 rejects the handler's
\* promise: no catch, no finally. In part_001 the same statements are inside
\* the try block.
ExecThrowBeforeRun(c, rec, e) ==
    IF build = "part_001"
    THEN ExecReturn(c, [rec EXCEPT !.thrown = TRUE], ExecuteError(e))
    ELSE /\ call' = [call EXCEPT ![c] = [rec EXCEPT !.pc = "raised", !.thrown = TRUE]]
         /\ UNCHANGED <<timer, interruptBuffer>>

\* A script either reaches a suspension point (an await) or never yields
\* control. The engine, an external collaborator, either runs the script up
\* to its first suspension inside runPythonAsync, or starts it from a later
\* task of the event loop ("later").
Scripts == {"yields", "never_yields"}
StartModes == Scripts \cup {"later"}

\* new Int32Array(new SharedArrayBuffer(4)): the buffer of call c, a new
\* buffer, all zero.
OldInterruptBuffer(c) == 1
NewInterruptBuffer(c) == c

\* new Int32Array(new SharedArrayBuffer(4)); pyodide.setInterruptBuffer(it);
\* pyodide.runPythonAsync(code): a script that never yields, run inside the
\* call, never gives the event loop back; else the timer is set when a
\* timeout was asked for and the handler awaits the race.
StartRun(c, rec, start) ==
    /\ buf' = [buf EXCEPT ![c] = 0]
    /\ interruptBuffer' = NewInterruptBuffer(c)
    /\ IF start = "never_yields"
       THEN /\ hung' = TRUE
            /\ run' = [run EXCEPT ![c] = "looping"]
            /\ call' = [call EXCEPT ![c] = [rec EXCEPT !.pc = "blocked"]]
            /\ timer' = timer
       ELSE /\ hung' = hung
            /\ run' = [run EXCEPT ![c] = IF start = "later" THEN "scheduled" ELSE "running"]
            /\ call' = [call EXCEPT ![c] = [rec EXCEPT !.pc = "race"]]
            /\ timer' = [timer EXCEPT ![c] = IF rec.timeout THEN "armed" ELSE @]

\* The task in which the engine starts a script scheduled by runPythonAsync:
\* the script runs to its first suspension, or never yields and the event
\* loop runs nothing else from then on.
EngineStart(c, script) ==
    /\ ~hung
    /\ run[c] = "scheduled"
    /\ run' = [run EXCEPT ![c] = IF script = "never_yields" THEN "looping" ELSE "running"]
    /\ hung' = (script = "never_yields")
    /\ UNCHANGED <<build, cacheDirSet, netGranted, writeGranted, revoked, nCalls, call,
                   interruptBuffer, buf, timer, rpc>>
    /\ UNCHANGED <<proxyVars, lib>>
Outcomes == {[ok |-> TRUE]} \cup {[ok |-> FALSE, error |-> e] : e \in Errors}
SnapOutcomes == {[ok |-> TRUE]} \cup {[ok |-> FALSE, error |-> e] : e \in FsErrors}

\* An execute_python request arrives. snap is the outcome of the "before"
\* getVFSState; with auto_load_packages the handler calls
\* pyodide.loadPackagesFromImports and awaits it, else it starts the run.
ExecBegin(timeout, autoload, snap, start) ==
    /\ ~hung
    /\ nCalls < MaxCalls
    /\ LET c == nCalls + 1
           rec0 == [NoCall EXCEPT
                      !.kind = "execute",
                      !.timeout = timeout,
                      !.auto_load_packages = autoload,
                      !.revokedAtStart = revoked]
       IN  /\ nCalls' = c
           /\ IF ~snap.ok
              THEN /\ ExecThrowBeforeRun(c, rec0, snap.error)
                   /\ UNCHANGED <<buf, run, hung>>
              ELSE IF autoload
              THEN /\ call' = [call EXCEPT ![c] =
                                 [rec0 EXCEPT !.pc = "autoload", !.loadInvoked = TRUE]]
                   /\ UNCHANGED <<buf, run, hung, timer, interruptBuffer>>
              ELSE StartRun(c, rec0, start)
    /\ UNCHANGED <<build, cacheDirSet, netGranted, writeGranted, revoked, rpc>>
    /\ UNCHANGED <<proxyVars, lib>>

\* pyodide.loadPackagesFromImports settles.
ExecAutoloadSettle(c, outcome, start) ==
    /\ ~hung
    /\ call[c].kind = "execute" /\ call[c].pc = "autoload"
    /\ IF outcome.ok
       THEN StartRun(c, call[c], start)
       ELSE /\ ExecThrowBeforeRun(c, call[c], outcome.error)
            /\ UNCHANGED <<buf, run, hung>>
    /\ UNCHANGED <<build, cacheDirSet, netGranted, writeGranted, revoked, nCalls, rpc>>
    /\ UNCHANGED <<proxyVars, lib>>

\* The engine's run settles while the handler awaits it: with a value (then
\* snap is the outcome of the "after" getVFSState) or with an error.
ExecRunSettle(c, outcome, snap) ==
    /\ ~hung
    /\ call[c].kind = "execute" /\ call[c].pc = "race"
    /\ run[c] \in {"running", "interrupted"}
    /\ run' = [run EXCEPT ![c] = "settled"]
    /\ IF ~outcome.ok
       THEN ExecReturn(c, [call[c] EXCEPT !.thrown = TRUE], ExecuteError(outcome.error))
       ELSE IF ~snap.ok
       THEN ExecReturn(c, [call[c] EXCEPT !.thrown = TRUE], ExecuteError(snap.error))
       ELSE ExecReturn(c, call[c], ExecuteOk)
    /\ UNCHANGED <<build, cacheDirSet, netGranted, writeGranted, revoked, nCalls,
                   buf, hung, rpc>>
    /\ UNCHANGED <<proxyVars, lib>>

\* The timer callback: Atomics.store(interruptBuffer, 0, 2) on the call's own
\* buffer, then reject: the race rejects and the handler runs its catch and
\* finally blocks.
TimerStore(b) == 2

ExecTimerFire(c) ==
    /\ ~hung
    /\ call[c].kind = "execute" /\ call[c].pc = "race"
    /\ timer[c] = "armed"
    /\ buf' = [buf EXCEPT ![c] = TimerStore(@)]
    /\ call' = [call EXCEPT ![c] =
                  [@ EXCEPT !.pc = "returned", !.thrown = TRUE,
                            !.res = ExecuteError(TimeoutError)]]
    /\ timer' = [timer EXCEPT ![c] = "fired"]
    /\ interruptBuffer' = FinallyInterruptBuffer(interruptBuffer)
    /\ UNCHANGED <<build, cacheDirSet, netGranted, writeGranted, revoked, nCalls,
                   run, hung, rpc>>
    /\ UNCHANGED <<proxyVars, lib>>

\* The engine's run of a call that already returned on its timeout settles.
RunSettleLate(c) ==
    /\ ~hung
    /\ call[c].kind = "execute" /\ call[c].pc = "returned"
    /\ run[c] \in {"running", "interrupted"}
    /\ run' = [run EXCEPT ![c] = "settled"]
    /\ UNCHANGED <<build, cacheDirSet, netGranted, writeGranted, revoked, nCalls, call,
                   interruptBuffer, buf, timer, hung, rpc>>
    /\ UNCHANGED <<proxyVars, lib>>

\* execute_python's catch block on its own: error is caught and the result
\* of the call is built from it.
CatchError ==
    /\ lib = NoLib
    /\ \E error \in Errors :
          lib' = [op |-> "catch", error |-> error, out |-> ExecuteError(error)]
    /\ UNCHANGED <<sessionVars, proxyVars>>

\* The engine, running the script of call c, reaches a safepoint and reads
\* the interrupt buffer it was last given: on a termination request (2) it
\* clears the request and raises KeyboardInterrupt in the script, whose run
\* then unwinds; with no buffer, or 0 in it, the script goes on.
EngineSample(c) ==
    /\ ~hung
    /\ run[c] = "running"
    /\ IF interruptBuffer # None /\ buf[interruptBuffer] = 2
       THEN /\ buf' = [buf EXCEPT ![interruptBuffer] = 0]
            /\ run' = [run EXCEPT ![c] = "interrupted"]
       ELSE UNCHANGED <<buf, run>>
    /\ UNCHANGED <<build, cacheDirSet, netGranted, writeGranted, revoked, nCalls, call,
                   interruptBuffer, timer, hung, rpc>>
    /\ UNCHANGED <<proxyVars, lib>>

\* ---------------------------------------------------------- RPC bridge
\* A task of the running script calls _host_rpc_call: the envelope is
\* handed to _js_host_rpc_bridge and the task awaits the outcome. Nothing
\* in the bridge makes a second task wait for the first one's outcome.
\* The envelopes of a run are numbered as the transport receives them.
FreeId(pending) == CHOOSE id \in 1..MaxRpc : id \notin pending /\ \A j \in 1..MaxRpc : j \notin pending => id <= j

HostRpcCall(c) ==
    /\ ~hung
    /\ run[c] = "running"
    /\ Cardinality(rpc[c]) < MaxRpc
    /\ rpc' = [rpc EXCEPT ![c] = @ \cup {FreeId(@)}]
    /\ UNCHANGED <<build, cacheDirSet, netGranted, writeGranted, revoked, nCalls, call,
                   interruptBuffer, buf, timer, run, hung>>
    /\ UNCHANGED <<proxyVars, lib>>

\* The transport returns the outcome of envelope id: the promise awaited by
\* the task that sent it resolves.
HostRpcOutcome(c, id) ==
    /\ ~hung
    /\ id \in rpc[c]
    /\ rpc' = [rpc EXCEPT ![c] = @ \ {id}]
    /\ UNCHANGED <<build, cacheDirSet, netGranted, writeGranted, revoked, nCalls, call,
                   interruptBuffer, buf, timer, run, hung>>
    /\ UNCHANGED <<proxyVars, lib>>

\* ------------------------------------------------------ _DynamicProxy
\* The names the scripts of the model use as attributes: two ordinary ones
\* and the two instance attributes __init__ sets on every proxy.
AttrNames == {"sub", "op", "_root_name", "_path_parts"}

\* self._root_name and self._path_parts: normal attribute lookup finds
\* them, so Python never calls __getattr__ for these names.
OwnAttrs == {"_root_name", "_path_parts"}

RootNames == {"fs"}
ArgLists == {<<>>, <<1>>}
KwargMaps == {<<>>, <<"k">>}

\* __getattr__: the path of the new proxy, a new list.
NewPathDropsPrefix(path, name) == <<name>>
NewPath(path, name) == path \o <<name>>

\* __getattr__ leaves self._path_parts as it is (list + list builds a new
\* list; an in-place append would change the proxy it was applied to).
PathAfterGetAttrAppended(path, name) == path \o <<name>>
PathAfterGetAttr(path, name) == path

\* __call__: the envelope given to _host_rpc_call.
ProxyEnvelope(obj, args, kwargs) ==
    [type |-> "proxy_callback", name |-> obj.root, path |-> obj.path,
     args |-> args, kwargs |-> kwargs]

\* configure registers a proxy tool: pyodide.globals.set(name,
\* DynamicProxyClass(name)); the script then names it, which starts the
\* evaluation of an attribute chain at the registered object.
ProxyLoad(r) ==
    /\ proxy.val.kind \in {"none", "result", "raised"}
    /\ proxy' = [heap |-> IF proxy.heap = <<>>
                          THEN <<[root |-> r, path |-> <<>>]>>
                          ELSE <<proxy.heap[1]>>,
                 val |-> [kind |-> "proxy", ref |-> 1],
                 chain |-> <<>>, called |-> FALSE]
    /\ sent' = <<>>
    /\ UNCHANGED <<sessionVars, lib>>

\* value.name for the value the chain has produced: an own attribute of a
\* proxy is returned as it is (a string, a list); any other name reaches
\* __getattr__ and yields a new proxy; a string or a list has none of the
\* names of the model (AttributeError).
ProxyGetAttr(name) ==
    /\ proxy.val.kind \in {"proxy", "str", "list"}
    /\ Len(proxy.chain) < MaxPath
    /\ LET v == proxy.val
           chain == Append(proxy.chain, name)
       IN  IF v.kind # "proxy"
           THEN proxy' = [proxy EXCEPT !.val = [kind |-> "raised"], !.chain = chain]
           ELSE IF name = "_root_name"
           THEN proxy' = [proxy EXCEPT !.val = [kind |-> "str"], !.chain = chain]
           ELSE IF name = "_path_parts"
           THEN proxy' = [proxy EXCEPT !.val = [kind |-> "list"], !.chain = chain]
           ELSE LET old == proxy.heap[v.ref]
                    new == [root |-> old.root, path |-> NewPath(old.path, name)]
                    heap == [proxy.heap EXCEPT
                               ![v.ref].path = PathAfterGetAttr(old.path, name)]
                IN  proxy' = [proxy EXCEPT
                                !.heap = Append(heap, new),
                                !.val = [kind |-> "proxy", ref |-> Len(heap) + 1],
                                !.chain = chain]
    /\ UNCHANGED sent
    /\ UNCHANGED <<sessionVars, lib>>

\* value(*args, **kwargs), awaited: a proxy sends one envelope; a string or
\* a list is not callable (TypeError) and nothing is sent.
ProxyCall(args, kwargs) ==
    /\ proxy.val.kind \in {"proxy", "str", "list"}
    /\ IF proxy.val.kind = "proxy"
       THEN /\ sent' = Append(sent, ProxyEnvelope(proxy.heap[proxy.val.ref], args, kwargs))
            /\ proxy' = [proxy EXCEPT !.val = [kind |-> "result", args |-> args,
                                               kwargs |-> kwargs],
                                      !.called = TRUE]
       ELSE /\ sent' = sent
            /\ proxy' = [proxy EXCEPT !.val = [kind |-> "raised"], !.called = TRUE]
    /\ UNCHANGED <<sessionVars, lib>>

\* ----------------------------------------------- _host_rpc_call: outcome
\* The attributes of the builtins module that the model's names reach:
\* exception classes, a function (len) and a type that is no exception (int).
ExceptionClasses == {"Exception", "ValueError", "KeyError"}
BuiltinNames == ExceptionClasses \cup {"len", "int"}

\* The values of "__error_type__" in an outcome (Absent: no such key).
ErrorTypeNames == BuiltinNames \cup {"HostError", Absent}
ErrorMessages == {"bad args", "denied"}
HostCallbackFailed == "Host callback failed: "

\* json.loads(result_str): a value that is no dict, a dict without the
\* "__error__" key, or a dict with it.
RpcOutcomes ==
    { [isDict |-> d, error |-> Absent, error_type |-> Absent, value |-> v] :
        d \in BOOLEAN, v \in {5, 7} } \cup
    { [isDict |-> TRUE, error |-> m, error_type |-> t, value |-> 0] :
        m \in ErrorMessages, t \in ErrorTypeNames }

\* getattr(builtins, error_type_name, Exception)
GetAttrBuiltins(name) == IF name \in BuiltinNames THEN name ELSE "Exception"

\* raise exception_class(text): an exception class is instantiated with the
\* text and raised; len(text) is an int, and raising an int is a TypeError;
\* int(text) itself raises a ValueError about the literal.
RaiseCall(exception_class, text) ==
    IF exception_class \in ExceptionClasses
    THEN [raised |-> TRUE, kind |-> exception_class, message |-> text]
    ELSE IF exception_class = "len"
    THEN [raised |-> TRUE, kind |-> "TypeError",
          message |-> <<"exceptions must derive from BaseException">>]
    ELSE [raised |-> TRUE, kind |-> "ValueError",
          message |-> <<"invalid literal for int() with base 10: ">> \o text]

\* _host_rpc_call from json.loads on: what the call does with result_obj.
HostRpcResult(result_obj) ==
    IF result_obj.isDict /\ result_obj.error # Absent
    THEN LET error_type_name == IF result_obj.error_type = Absent
                                THEN "Exception" ELSE result_obj.error_type
             error_message == result_obj.error
             exception_class == GetAttrBuiltins(error_type_name)
         IN  RaiseCall(exception_class, <<HostCallbackFailed, error_message>>)
    ELSE [raised |-> FALSE, value |-> result_obj.value]

\* The transport's outcome reaches the task awaiting it in _host_rpc_call.
HostRpcReturn ==
    /\ lib = NoLib
    /\ \E result_obj \in RpcOutcomes :
          lib' = [op |-> "_host_rpc_call", result_obj |-> result_obj,
                  out |-> HostRpcResult(result_obj)]
    /\ UNCHANGED <<sessionVars, proxyVars>>

\* ------------------------------------------------------ produced files
\* A path is the sequence of its components; WORK_DIR is "/workspace".
WORK_DIR == <<"workspace">>

\* The regular files under the working directory.
Files == { <<"workspace", "a.txt">>, <<"workspace", "b.txt">>,
           <<"workspace", "out", "c.txt">> }
Mtimes == 1..MaxMtime

\* A Map<string, number> as getVFSState builds it: its entries in
\* insertion order, one per key.
Snapshots ==
    { m \in UNION { [1..n -> [path : Files, mtime : Mtimes]] : n \in 0..Cardinality(Files) } :
        \A i, j \in 1..Len(m) : m[i].path = m[j].path => i = j }

\* Map.prototype.has and Map.prototype.get
MapHas(m, key) == \E i \in 1..Len(m) : m[i].path = key
MapGet(m, key) == m[CHOOSE i \in 1..Len(m) : m[i].path = key].mtime

\* path.relative(from, to): ".." for each component of from below the
\* common prefix, then the components of to below it.
CommonLen(from, to) ==
    CHOOSE n \in 0..Len(from) :
        /\ n <= Len(to)
        /\ \A i \in 1..n : from[i] = to[i]
        /\ n < Len(from) /\ n < Len(to) => from[n + 1] # to[n + 1]
Relative(from, to) ==
    LET n == CommonLen(from, to)
    IN  [i \in 1..(Len(from) - n) |-> ".."] \o SubSeq(to, n + 1, Len(to))

\* mtimeBefore === undefined || mtimeAfter > mtimeBefore
ProducedOrEqual(filesBefore, filePath, mtimeAfter) ==
    ~MapHas(filesBefore, filePath) \/ mtimeAfter >= MapGet(filesBefore, filePath)
Produced(filesBefore, filePath, mtimeAfter) ==
    ~MapHas(filesBefore, filePath) \/ mtimeAfter > MapGet(filesBefore, filePath)

\* The loop over filesAfter.entries() that fills output_files.
RECURSIVE DiffLoop(_, _, _, _)
DiffLoop(filesBefore, filesAfter, i, output_files) ==
    IF i > Len(filesAfter)
    THEN output_files
    ELSE LET filePath == filesAfter[i].path
             mtimeAfter == filesAfter[i].mtime
         IN  DiffLoop(filesBefore, filesAfter, i + 1,
                      IF Produced(filesBefore, filePath, mtimeAfter)
                      THEN Append(output_files, Relative(WORK_DIR, filePath))
                      ELSE output_files)

\* execute_python computes the produced files from the two snapshots.
DiffFiles ==
    /\ lib = NoLib
    /\ \E filesBefore, filesAfter \in Snapshots :
          lib' = [op |-> "diff", filesBefore |-> filesBefore, filesAfter |-> filesAfter,
                  out |-> DiffLoop(filesBefore, filesAfter, 1, <<>>)]
    /\ UNCHANGED <<sessionVars, proxyVars>>

\* --------------------------------------------------------- getVFSState
\* The virtual filesystem below WORK_DIR: a set of entries, each with its
\* absolute path (a sequence of components) and its kind; the parent of
\* every entry is a directory of the set. EntryNames are the names an
\* entry can have, in the order FS.readdir lists them; MaxDepth is the
\* greatest number of components below WORK_DIR.
MaxDepth == 3
EntryNames == <<"mnt", "data">>

RECURSIVE Trees(_, _)
EntryTrees(p, name, d) ==
    LET q == Append(p, name)
    IN  {{}} \cup {{[path |-> q, kind |-> "file"]}}
            \cup (IF d > 1
                  THEN {{[path |-> q, kind |-> "dir"]} \cup sub : sub \in Trees(q, d - 1)}
                  ELSE {})
RECURSIVE TreesOver(_, _, _)
TreesOver(p, i, d) ==
    IF i > Len(EntryNames)
    THEN {{}}
    ELSE {x \cup y : x \in EntryTrees(p, EntryNames[i], d), y \in TreesOver(p, i + 1, d)}
Trees(p, d) == TreesOver(p, 1, d)
FileSystems == Trees(WORK_DIR, MaxDepth)

\* configure mounts every entry of args.mounts at mountRoot/<name>, after
\* mkdirTree of that path: mountRoot is WORK_DIR/mnt in part_000 and /mnt in
\* part_001. (The output_dir mount at WORK_DIR itself is the writable
\* working directory, not a named mount.)
MountNames == {"data"}
MountRoot == IF build = "part_000" THEN Append(WORK_DIR, "mnt") ELSE <<"mnt">>
MountPoints(mounts) == {Append(MountRoot, name) : name \in mounts}
IsPrefix(p, q) == Len(p) <= Len(q) /\ SubSeq(q, 1, Len(p)) = p

\* pyodide.FS.readdir(currentPath)
Readdir(fs, currentPath) ==
    <<".", "..">> \o
    SelectSeq(EntryNames, LAMBDA name : \E e \in fs : e.path = Append(currentPath, name))

\* pyodide.FS.stat(path) can throw for one entry: on every call ("always",
\* e.g. a dangling link), or only on the calls after the listing ("late",
\* the entry went away in between).
StatFailures(fs) ==
    {[path |-> <<>>, when |-> "never"]}
        \cup {[path |-> e.path, when |-> w] : e \in fs, w \in {"always", "late"}}
StatThrows(bad, path, caller) ==
    /\ bad.path = path
    /\ bad.when = "always" \/ (bad.when = "late" /\ caller = "getVFSState")
IsDir(fs, path) == [path |-> path, kind |-> "dir"] \in fs

\* The entry names the scan passes over.
SkippedEntries == {".", ".."} \cup (IF build = "part_000" THEN {"mnt"} ELSE {})

\* listFilesRecursive: scan pushes the full path of every entry that is
\* not a directory and descends into the directories; a stat that throws
\* ends the whole listing.
RECURSIVE Scan(_, _, _, _)
RECURSIVE ScanEntries(_, _, _, _, _, _)
ScanEntries(fs, bad, currentPath, entries, i, allFiles) ==
    IF i > Len(entries)
    THEN [allFiles |-> allFiles, threw |-> FALSE]
    ELSE LET entry == entries[i]
             fullPath == Append(currentPath, entry)
         IN  IF entry \in SkippedEntries
             THEN ScanEntries(fs, bad, currentPath, entries, i + 1, allFiles)
             ELSE IF StatThrows(bad, fullPath, "listFilesRecursive")
             THEN [allFiles |-> allFiles, threw |-> TRUE]
             ELSE IF IsDir(fs, fullPath)
             THEN LET sub == Scan(fs, bad, fullPath, allFiles)
                  IN  IF sub.threw
                      THEN sub
                      ELSE ScanEntries(fs, bad, currentPath, entries, i + 1, sub.allFiles)
             ELSE ScanEntries(fs, bad, currentPath, entries, i + 1,
                              Append(allFiles, fullPath))
Scan(fs, bad, currentPath, allFiles) ==
    ScanEntries(fs, bad, currentPath, Readdir(fs, currentPath), 1, allFiles)
ListFilesRecursive(fs, bad, dirPath) == Scan(fs, bad, dirPath, <<>>)

\* The loop of getVFSState over allFiles: state.set(filePath, mtime) for
\* every file whose stat succeeds; a stat that throws is logged and the
\* file is passed over.
RECURSIVE StateLoop(_, _, _, _, _)
StateLoop(bad, mtime, allFiles, i, state) ==
    IF i > Len(allFiles)
    THEN state
    ELSE LET filePath == allFiles[i]
         IN  StateLoop(bad, mtime, allFiles, i + 1,
                       IF StatThrows(bad, filePath, "getVFSState")
                       THEN state
                       ELSE Append(state, [path |-> filePath, mtime |-> mtime]))

\* getVFSState(pyodide, WORK_DIR) on filesystem fs whose files carry
\* modification time mtime: the Map it returns, or threw when the listing
\* threw.
VFSState(fs, bad, mtime) ==
    LET listed == ListFilesRecursive(fs, bad, WORK_DIR)
    IN  [threw |-> listed.threw,
         state |-> IF listed.threw
                   THEN <<>>
                   ELSE StateLoop(bad, mtime, listed.allFiles, 1, <<>>)]

\* execute_python takes a snapshot of the working directory; mounts are
\* the names mounted by earlier configure calls.
GetVFSState ==
    /\ lib = NoLib
    /\ \E fs \in FileSystems, mounts \in SUBSET MountNames, mtime \in Mtimes :
          /\ \A mp \in MountPoints(mounts) : IsPrefix(WORK_DIR, mp) => IsDir(fs, mp)
          /\ \E bad \in StatFailures(fs) :
                LET r == VFSState(fs, bad, mtime)
                IN  lib' = [op |-> "getVFSState", fs |-> fs, mounts |-> mounts,
                            bad |-> bad, mtime |-> mtime,
                            threw |-> r.threw, state |-> r.state]
    /\ UNCHANGED <<sessionVars, proxyVars>>

\* -------------------------------------------------------- serialize_py
\* A Python value is a heap of objects; id(obj) is the object's place in
\* the heap, and the items of a container are objects of the same heap, so
\* an object can be shared and a container can hold itself. Object 1 is
\* the value handed to serialize_py.
Objects == 1..MaxObjects

\* The branches of _robust_serialize: str/int/float/bool/None ("prim"),
\* list/tuple/set/frozenset ("list"), dict (one key, "k"), date or
\* datetime, and any other object.
ContainerKinds == {"list", "dict"}
ItemLists(kind) ==
    UNION { [1..n -> Objects] : n \in 0..(IF kind = "dict" THEN 1 ELSE MaxItems) }
ObjectValues ==
    { [kind |-> k, items |-> <<>>] : k \in {"prim", "date", "other"} } \cup
    UNION { { [kind |-> k, items |-> its] : its \in ItemLists(k) } : k \in ContainerKinds }
Heaps == [Objects -> ObjectValues]

\* {"type": "circular_reference", "repr": repr(obj)}
CircularReference(obj) == [type |-> "circular_reference", repr |-> obj, items |-> <<>>]

\* _robust_serialize(obj, seen): the value returned, the set seen as the
\* call leaves it (one set, shared by every call of the traversal, to
\* which ids are only ever added), and the number of calls made.
RECURSIVE RobustSerialize(_, _, _)
RECURSIVE SerializeItems(_, _, _, _)
RobustSerialize(heap, obj, seen) ==
    IF obj \in seen
    THEN [value |-> CircularReference(obj), seen |-> seen, calls |-> 1]
    ELSE LET seen1 == seen \cup {obj}
             o == heap[obj]
         IN  IF o.kind = "prim"
             THEN [value |-> [type |-> "prim", repr |-> obj, items |-> <<>>],
                   seen |-> seen1, calls |-> 1]
             ELSE IF o.kind \in ContainerKinds
             THEN LET r == SerializeItems(heap, o.items, 1,
                                          [values |-> <<>>, seen |-> seen1, calls |-> 1])
                  IN  [value |-> [type |-> o.kind, repr |-> 0, items |-> r.values],
                       seen |-> r.seen, calls |-> r.calls]
             ELSE IF o.kind = "date"
             THEN [value |-> [type |-> "isoformat", repr |-> obj, items |-> <<>>],
                   seen |-> seen1, calls |-> 1]
             ELSE [value |-> [type |-> "not_serializable", repr |-> obj, items |-> <<>>],
                   seen |-> seen1, calls |-> 1]

\* [_robust_serialize(item, seen) for item in obj], from item i on.
SerializeItems(heap, items, i, acc) ==
    IF i > Len(items)
    THEN acc
    ELSE LET r == RobustSerialize(heap, items[i], acc.seen)
         IN  SerializeItems(heap, items, i + 1,
                            [values |-> Append(acc.values, r.value),
                             seen |-> r.seen,
                             calls |-> acc.calls + r.calls])

\* serialize_py(obj): _robust_serialize(obj) with seen=None, a new set.
SerializePy ==
    /\ lib = NoLib
    /\ \E heap \in Heaps :
          lib' = [op |-> "serialize_py", heap |-> heap,
                  out |-> RobustSerialize(heap, 1, {})]
    /\ UNCHANGED <<sessionVars, proxyVars>>

\* ------------------------------------------------------ specifications
ConfigureNext ==
    \/ \E p, dn, dr \in BOOLEAN, f \in StepNames \cup {"none"} : CfgBegin(p, dn, dr, f)
    \/ \E c \in CallIds : CfgQueryWrite(c)
    \/ \E c \in CallIds : CfgCheck(c)
    \/ \E c \in CallIds, ok \in BOOLEAN : CfgLoadSettle(c, ok)
    \/ \E c \in CallIds : CfgRevokeNetDone(c)
    \/ \E c \in CallIds : CfgRevokeWriteDone(c)

ExecuteNext ==
    \/ \E t, a \in BOOLEAN, snap \in SnapOutcomes, s \in StartModes : ExecBegin(t, a, snap, s)
    \/ \E c \in CallIds, o \in Outcomes, s \in StartModes : ExecAutoloadSettle(c, o, s)
    \/ \E c \in CallIds, s \in Scripts : EngineStart(c, s)
    \/ \E c \in CallIds, o \in Outcomes, snap \in SnapOutcomes : ExecRunSettle(c, o, snap)
    \/ \E c \in CallIds : ExecTimerFire(c)
    \/ \E c \in CallIds : RunSettleLate(c)
    \/ \E c \in CallIds : EngineSample(c)

RpcNext ==
    \/ \E c \in CallIds : HostRpcCall(c)
    \/ \E c \in CallIds, id \in 1..MaxRpc : HostRpcOutcome(c, id)

\* The session: configure and execute_python calls in any interleaving the
\* event loop allows.
Next == ConfigureNext \/ ExecuteNext

Spec == Init /\ [][Next]_vars

\* The executions of a session together with the RPCs their scripts issue.
NextRpc == ExecuteNext \/ RpcNext

InitRpc == Init /\ cacheDirSet /\ writeGranted /\ netGranted = Domains

SpecRpc == InitRpc /\ [][NextRpc]_vars

\* The executions of a session under the scheduling of the event loop: a
\* timer that is due fires, a scheduled task runs, a running script reaches
\* its next safepoint and a pending package load settles, unless the loop
\* is held by a script that never yields.
\* Nothing makes a script finish.
Fairness ==
    \A c \in CallIds :
        /\ WF_vars(ExecTimerFire(c))
        /\ WF_vars(\E s \in Scripts : EngineStart(c, s))
        /\ WF_vars(EngineSample(c))
        /\ WF_vars(\E o \in Outcomes, s \in StartModes : ExecAutoloadSettle(c, o, s))

SpecLive == InitRpc /\ [][ExecuteNext]_vars /\ Fairness

\* The attribute chains a script evaluates on a registered proxy.
NextProxy ==
    \/ \E r \in RootNames : ProxyLoad(r)
    \/ \E name \in AttrNames : ProxyGetAttr(name)
    \/ \E args \in ArgLists, kwargs \in KwargMaps : ProxyCall(args, kwargs)

InitProxy == Init /\ build = "part_001" /\ cacheDirSet /\ writeGranted /\ netGranted = Domains

SpecProxy == InitProxy /\ [][NextProxy]_vars

\* One call of one of the program's functions, on every argument of the
\* bounded sets.
NextLib ==
    \/ CatchError
    \/ HostRpcReturn
    \/ DiffFiles
    \/ GetVFSState
    \/ SerializePy

SpecLib == InitRpc /\ [][NextLib]_vars

\* ============================================================== claims
Configures == {c \in CallIds : call[c].kind = "configure"}
Executes == {c \in CallIds : call[c].kind = "execute"}

\* An execution is Running from the start of its engine run until its
\* handler resolves.
Running(c) == call[c].kind = "execute" /\ call[c].pc \in {"race", "blocked"}

\* C1: capability ratchet. After every step, a capability on which revoke
\* has been called is reported as disabled by readPackagePermissions; no
\* step turns a disabled capability into a granted one; and a revoke of an
\* already disabled capability leaves the permission state as it was.
C1_CapabilityRatchet ==
    [][ /\ "net" \in revoked' => IsNetworkDisabled(netGranted')
        /\ "write" \in revoked' => IsRuntimePackagesDisabled(cacheDirSet', writeGranted')
        /\ IsNetworkDisabled(netGranted) => netGranted' = netGranted
        /\ IsRuntimePackagesDisabled(cacheDirSet, writeGranted)
             => IsRuntimePackagesDisabled(cacheDirSet', writeGranted')
        /\ ~writeGranted => ~writeGranted' ]_vars

\* C1 witness: a first configure call revoked both capabilities and
\* returned, and a second configure call that asked for the revocations
\* again and for packages has returned too.
C1_Witness ==
    /\ call[1].kind = "configure" /\ call[1].pc = "returned"
    /\ call[1].disable_net /\ call[1].disable_runtime_packages
    /\ call[2].kind = "configure" /\ call[2].pc = "returned"
    /\ call[2].disable_net /\ call[2].disable_runtime_packages
    /\ call[2].packages /\ call[2].deniedAtStart
    /\ revoked = {"net", "write"}

\* C2: when a configure call with disable_net (disable_runtime_packages)
\* has returned, with success or with a configuration error, net
\* (runtime package install) is reported as disabled.
C2_RevocationOnEveryExit ==
    \A c \in Configures :
        call[c].pc = "returned" =>
            /\ call[c].disable_net => IsNetworkDisabled(netGranted)
            /\ call[c].disable_runtime_packages
                 => IsRuntimePackagesDisabled(cacheDirSet, writeGranted)

\* C2 witness: a configure call asking for both revocations failed in one
\* of its steps, returned a configuration error, and both are revoked.
C2_Witness ==
    \E c \in Configures :
        /\ call[c].pc = "returned" /\ call[c].thrown
        /\ call[c].res = ConfigureError
        /\ call[c].disable_net /\ call[c].disable_runtime_packages
        /\ revoked = {"net", "write"}

\* C3: an execute_python call with auto_load_packages that starts after
\* a configure call revoked the write permission of the package cache
\* never invokes loadPackagesFromImports and never starts the run; it does
\* not end with a rejected promise, and what it returns is is_success =
\* false with error_code PERMISSION_DENIED.
C3_PermissionGateOnExecute ==
    \A c \in Executes :
        call[c].auto_load_packages /\ "write" \in call[c].revokedAtStart =>
            /\ ~call[c].loadInvoked
            /\ run[c] = "none"
            /\ call[c].pc # "raised"
            /\ call[c].pc = "returned" =>
                 /\ call[c].res.is_success = "false"
                 /\ call[c].res.error_code = "PERMISSION_DENIED"

\* C4: a configure call with packages that started with the network or the
\* runtime-package-install capability disabled never invokes loadPackage
\* and returns a configuration error; and loadPackage is invoked only by
\* the step that follows the two permission reads, both read as granted.
C4_PermissionGateOnConfigure ==
    [][ \A c \in CallIds :
          call'[c].kind = "configure" =>
            /\ call'[c].packages /\ call'[c].deniedAtStart =>
                 /\ ~call'[c].loadInvoked
                 /\ call'[c].pc = "returned" => call'[c].res = ConfigureError
            /\ call'[c].loadInvoked /\ ~call[c].loadInvoked =>
                 /\ call[c].pc = "query_write"
                 /\ ~call[c].isNetworkDisabled
                 /\ ~call[c].isRuntimePackagesDisabled ]_vars

\* C4 witness: a configure call with packages started with a capability
\* disabled, passed every step before package loading, and returned a
\* configuration error without invoking loadPackage.
C4_Witness ==
    \E c \in Configures :
        /\ call[c].packages /\ call[c].deniedAtStart
        /\ call[c].applied = SyncSteps
        /\ call[c].pc = "returned" /\ call[c].res = ConfigureError
        /\ ~call[c].loadInvoked

\* C5: when the timer of an execute_python call has fired, the call's own
\* interrupt buffer holds the termination request (2) and the call has
\* returned is_success = false with error_code = TIMEOUT.
C5_RunningToTimedOut ==
    \A c \in Executes :
        timer[c] = "fired" =>
            /\ buf[c] = 2
            /\ call[c].pc = "returned"
            /\ call[c].res.is_success = "false"
            /\ call[c].res.error_code = "TIMEOUT"

\* C6: in the step that ends an execute_python call, by a result or by a
\* failure of the before-snapshot or of package auto-loading, the engine
\* is left with no interrupt buffer.
C6_TerminalCleanup ==
    [][ \A c \in CallIds :
          /\ call'[c].kind = "execute"
          /\ call'[c].pc \in {"returned", "raised"}
          /\ call[c].pc \notin {"returned", "raised"}
          => interruptBuffer' = None ]_vars

\* C7: no configure or execute_python handler ends with a rejected promise:
\* every call that ends has returned a structured result.
C7_NoFailureEscapes ==
    \A c \in CallIds : call[c].pc # "raised"

\* C8: at most one execution is Running at a time.
C8_SingleFlight ==
    Cardinality({c \in CallIds : Running(c)}) <= 1

\* C9: within one run at most one RPC envelope has been handed to the
\* transport without its outcome having come back.
C9_OneRpcAtATime ==
    \A c \in CallIds : Cardinality(rpc[c]) <= 1

\* The proxy object the chain started from, and the ones it went through,
\* each have the root name of the registered proxy and the path of the
\* accesses that produced them.
ProxiesUnchanged ==
    \A i \in 1..Len(proxy.heap) :
        /\ proxy.heap[i].root = proxy.heap[1].root
        /\ proxy.heap[i].path = SubSeq(proxy.chain, 1, i - 1)

\* The one envelope a call at the end of the chain sends.
ChainEnvelope ==
    [type |-> "proxy_callback", name |-> proxy.heap[1].root, path |-> proxy.chain,
     args |-> proxy.val.args, kwargs |-> proxy.val.kwargs]

C11_RpcErrorOutcome ==
    lib.op = "_host_rpc_call" /\ lib.result_obj.isDict /\ lib.result_obj.error # Absent =>
        /\ lib.out.raised
        /\ lib.out.kind = IF lib.result_obj.error_type \in ExceptionClasses
                          THEN lib.result_obj.error_type ELSE "Exception"
        /\ lib.out.message = <<HostCallbackFailed, lib.result_obj.error>>

\* The place of an absolute path in a snapshot (0: not in it).
IndexIn(m, key) == IF MapHas(m, key) THEN CHOOSE i \in 1..Len(m) : m[i].path = key ELSE 0

RECURSIVE AncestorSerialize(_, _, _)
AncestorSerialize(heap, obj, path) ==
    IF obj \in path
    THEN CircularReference(obj)
    ELSE LET o == heap[obj]
         IN  IF o.kind \in ContainerKinds
             THEN [type |-> o.kind, repr |-> 0,
                   items |-> [i \in 1..Len(o.items) |->
                                AncestorSerialize(heap, o.items[i], path \cup {obj})]]
             ELSE [type |-> CASE o.kind = "prim" -> "prim"
                              [] o.kind = "date" -> "isoformat"
                              [] OTHER -> "not_serializable",
                   repr |-> obj, items |-> <<>>]

\* C13: in the value serialize_py builds, an object is replaced by a
\* circular_reference marker only where it is its own ancestor on the
\* traversal path; every other occurrence of an object, a shared container
\* or a primitive occurring twice, is serialized normally.
C13_CycleMarking ==
    lib.op = "serialize_py" =>
        lib.out.value = AncestorSerialize(lib.heap, 1, {})

\* The objects reachable from the objects of S through items.
Items(heap, obj) == { heap[obj].items[i] : i \in 1..Len(heap[obj].items) }
RECURSIVE ReachableFrom(_, _)
ReachableFrom(heap, S) ==
    LET T == S \cup UNION { Items(heap, obj) : obj \in S }
    IN  IF T = S THEN S ELSE ReachableFrom(heap, T)

\* Some container of the value handed to serialize_py is reachable from
\* itself.
HasCycle(heap) ==
    \E obj \in ReachableFrom(heap, {1}) : obj \in ReachableFrom(heap, Items(heap, obj))

\* C18: for a value in which some container is reachable from itself,
\* serialize_py terminates (it makes at most one call for the value and one
\* for each item of each container), and the circular_reference markers of
\* its output are exactly at the occurrences of an object inside itself.
C18_TerminatesOnCycles ==
    lib.op = "serialize_py" /\ HasCycle(lib.heap) =>
        /\ lib.out.calls <= 1 + MaxObjects * MaxItems
        /\ lib.out.value = AncestorSerialize(lib.heap, 1, {})

\* The checks of formatError, one per category.
MatchesTimeout(e) == TimeoutText \in e.msg
MatchesPermission(e) == e.denoPerm \/ PermText \in e.msg
MatchesPythonException(e) == PyErrText \in e.msg \/ TracebackText \in e.msg

\* C14: the error_code of a failure caught by execute_python (revision
\* part_001, which classifies) is the first category it matches in the
\* order TIMEOUT, PERMISSION_DENIED, PYTHON_EXCEPTION, and UNKNOWN when it
\* matches none.
C14_ClassificationOrder ==
    lib.op = "catch" /\ build = "part_001" =>
        lib.out.error_code =
            IF MatchesTimeout(lib.error) THEN "TIMEOUT"
            ELSE IF MatchesPermission(lib.error) THEN "PERMISSION_DENIED"
            ELSE IF MatchesPythonException(lib.error) THEN "PYTHON_EXCEPTION"
            ELSE "UNKNOWN"

\* The steps the claim names, in its order, and all the steps of the
\* revision in source order.
NamedSteps == <<"globals", "output_dir", "mounts", "tools", "packages">>
AllSteps == SyncSteps \o <<"packages">>
IsNamedStep(step) == \E i \in 1..Len(NamedSteps) : NamedSteps[i] = step
IndexOfStep(step) == CHOOSE i \in 1..Len(AllSteps) : AllSteps[i] = step

\* C15: the steps a configure call has applied are, in order, globals,
\* output-directory mount, named mounts, callback/proxy registration,
\* package loading; once step k has failed, the steps applied are exactly
\* the ones before k, then and ever after (nothing after k is applied,
\* nothing before k is undone), and the call returns a configuration error.
C15_StepOrderAndAbort ==
    [][ \A c \in CallIds :
          call'[c].kind = "configure" =>
            LET rec == call'[c]
                named == SelectSeq(rec.applied, IsNamedStep)
            IN  /\ named = Prefix(NamedSteps, Len(named))
                /\ Len(rec.applied) >= Len(call[c].applied)
                /\ Prefix(rec.applied, Len(call[c].applied)) = call[c].applied
                /\ rec.failed # "none" =>
                     /\ rec.applied = Prefix(AllSteps, IndexOfStep(rec.failed) - 1)
                     /\ rec.pc = "returned" => rec.res = ConfigureError ]_vars

\* C15 witness: a configure call whose named mounts failed has returned a
\* configuration error with the globals and the output directory applied
\* and neither the registration nor the packages.
C15_Witness ==
    \E c \in Configures :
        /\ call[c].failed = "mounts" /\ call[c].packages
        /\ call[c].pc = "returned" /\ call[c].res = ConfigureError
        /\ SelectSeq(call[c].applied, IsNamedStep) = <<"globals", "output_dir">>
        /\ ~call[c].loadInvoked

\* C16: every result of execute_python carries a boolean is_success, true
\* exactly when the execution completed (nothing was thrown); a success
\* carries the value and the produced files and neither error nor
\* error_code; a failure carries an error message and an error_code; and
\* error_code is absent or one of the four codes.
C16_ResultShape ==
    \A c \in Executes :
        call[c].pc = "returned" =>
            LET res == call[c].res
            IN  /\ res.is_success \in {"true", "false"}
                /\ res.is_success = "true" <=> ~call[c].thrown
                /\ res.is_success = "true" =>
                     res.result /\ res.files /\ ~res.error /\ res.error_code = Absent
                /\ res.is_success = "false" => res.error /\ res.error_code \in ErrorCodes
                /\ res.error_code \in ErrorCodes \cup {Absent}

\* C17: an execute_python call with a timeout whose script never yields
\* control eventually returns, with is_success = false and error_code =
\* TIMEOUT.
C17_TimeoutOfNonYieldingScript ==
    \A c \in CallIds :
        (call[c].kind = "execute" /\ call[c].timeout /\ run[c] = "looping")
            ~> (/\ call[c].pc = "returned"
                /\ call[c].res.is_success = "false"
                /\ call[c].res.error_code = "TIMEOUT")

\* The engine starts running the code of call c in this step.
EngineStarts(c) ==
    /\ run[c] \in {"none", "scheduled"}
    /\ run'[c] \in {"running", "looping"}

\* C19: in the step in which the engine starts running the code of an
\* execute_python call, the interrupt buffer the engine is left with, if
\* any, holds 0 (no termination request); and when the run starts inside the
\* handler, that buffer is the call's own.
C19_FreshInterruptState ==
    [][ \A c \in CallIds :
          EngineStarts(c) =>
            /\ interruptBuffer' # None => buf'[interruptBuffer'] = 0
            /\ run[c] = "none" => interruptBuffer' = c ]_vars

\* C19 witness: the first execution timed out, its timer wrote the
\* termination request in its buffer, and the engine is running the code of
\* a second execution, started afterwards, with that execution's buffer.
C19_Witness ==
    /\ timer[1] = "fired" /\ buf[1] = 2
    /\ call[1].pc = "returned"
    /\ call[2].kind = "execute" /\ run[2] = "running"
    /\ interruptBuffer = 2 /\ buf[2] = 0

\* The execution of call c timed out and the run it started has not ended.
TimedOutAndRunning(c) == timer[c] = "fired" /\ run[c] \in {"scheduled", "running"}

\* C20: as long as the run of an execution that timed out has not unwound,
\* the termination request its timer wrote is readable by the engine (the
\* engine holds the call's buffer and the buffer holds 2); and the engine
\* starts the code of no execution while the script of a timed-out one is
\* still running.
C20_InterruptDelivery ==
    [][ /\ \A c \in CallIds :
              TimedOutAndRunning(c)' => interruptBuffer' = c /\ buf'[c] = 2
        /\ \A c, d \in CallIds :
              EngineStarts(d) /\ c # d => ~TimedOutAndRunning(c) ]_vars

\* A package load (loadPackage of configure, loadPackagesFromImports of
\* execute_python) is started by call c in this step.
LoadStarts(c) == call'[c].loadInvoked /\ ~call[c].loadInvoked

\* A finally block of configure applies a revocation in this step.
RevocationApplied ==
    \E d \in CallIds :
        /\ call'[d].pc \in {"revoke_net", "revoke_write"}
        /\ call'[d].pc # call[d].pc

\* C21: no package load is started in a state in which revoke has been
\* called on the network or on the package cache; and no revocation is
\* applied in a step that leaves in flight a loadPackage that passed its
\* permission check.
C21_NoGatedActionSlipsThrough ==
    [][ /\ \A c \in CallIds : LoadStarts(c) => revoked = {}
        /\ RevocationApplied =>
              \A c \in CallIds :
                  ~(call[c].kind = "configure" /\ call[c].pc = "loading"
                      /\ call'[c].pc = "loading") ]_vars

\* C22: a call whose result carries error_code TIMEOUT had a timeout
\* configured, its timer fired while the race was pending, and its interrupt
\* buffer holds the termination request; no error of the script or of an RPC
\* outcome is reported as TIMEOUT.
C22_TimeoutIsReal ==
    \A c \in CallIds :
        (call[c].kind = "execute" /\ call[c].res.error_code = "TIMEOUT") =>
            /\ call[c].timeout
            /\ timer[c] = "fired"
            /\ buf[c] = TimerStore(buf[c])

\* The paths a snapshot holds, and the regular files of its filesystem that
\* lie under no mount point.
SnapshotPaths == {lib.state[i].path : i \in 1..Len(lib.state)}
UnderMount(path, mounts) == \E mp \in MountPoints(mounts) : IsPrefix(mp, path)
FilesOutsideMounts ==
    {e.path : e \in {x \in lib.fs : x.kind = "file" /\ ~UnderMount(x.path, lib.mounts)}}

\* C23: a snapshot of the working directory holds exactly the regular files
\* under it that lie under no mount point and whose timestamp could be
\* read, at every depth, each with its modification time; no directory and
\* no file under a mount point is in it.
C23_SnapshotCoverage ==
    (lib.op = "getVFSState" /\ ~lib.threw) =>
        /\ SnapshotPaths = FilesOutsideMounts \ {lib.bad.path}
        /\ \A i \in 1..Len(lib.state) : lib.state[i].mtime = lib.mtime

\* The snapshot of the same filesystem when no stat fails.
UnfailingState == VFSState(lib.fs, [path |-> <<>>, when |-> "never"], lib.mtime).state

\* C24: when the stat of one entry fails, at the listing or afterwards, the
\* snapshot still completes, and it holds what the snapshot without the
\* failure holds, except the failing entry.
C24_StatFailureNotFatal ==
    (lib.op = "getVFSState" /\ lib.bad.when # "never") =>
        /\ ~lib.threw
        /\ SnapshotPaths =
               {UnfailingState[i].path : i \in 1..Len(UnfailingState)} \ {lib.bad.path}

\* The result of execute_python call c is settled: it never changes again,
\* its timer does not fire and its interrupt buffer is not written.
OutcomeIsFinal(c) ==
    call[c].pc = "returned" =>
        call'[c] = call[c] /\ timer'[c] = timer[c] /\ buf'[c] = buf[c]

\* Call c returned without its timer having fired (Completed or Failed):
\* the timer is unset or cleared and no termination request was written;
\* and a call that returned success did so without its timer firing.
ReturnedWithoutTimer(c) ==
    /\ (call[c].pc = "returned" /\ timer[c] # "fired") =>
            timer[c] \in {"unset", "cleared"} /\ buf[c] = 0
    /\ (call[c].pc = "returned" /\ call[c].res.is_success = "true") =>
            timer[c] # "fired"

\* C25: every execute_python call with a timeout that is Running eventually
\* returns; a Running call ends only by returning one result; a call that
\* returned without its timer firing has no termination request in its
\* buffer; and once a call has returned, its result does not change, its
\* timer does not fire and the engine's late settling adds nothing.
C25_OneTerminalOutcome ==
    /\ \A c \in CallIds : (Running(c) /\ call[c].timeout) ~> call[c].pc = "returned"
    /\ [][ \A c \in Executes :
              /\ OutcomeIsFinal(c)
              /\ Running(c) /\ ~Running(c)' => call'[c].pc = "returned" ]_vars
    /\ [](\A c \in Executes : ReturnedWithoutTimer(c))

=============================================================================
